---- MODULE Spec2Model ----
(***************************************************************************)
(* Model of parse.py: a run of the script walks the files of ./data, folds *)
(* every log entry into Parser.data (artist -> album -> track counters)    *)
(* and writes the artists, sorted by total_listens, to out/data.json.      *)
(*                                                                         *)
(* Python dicts keep insertion order, and the output depends on it, so a   *)
(* dict is modelled as a sequence of <<key, value>> pairs.                 *)
(***************************************************************************)
EXTENDS Integers, Sequences, FiniteSets, TLC

\* ---------------------------------------------------------------- bounds
MaxFiles == 2   \* entries of ./data
MaxRecs  == 3   \* elements of the parsed files of one run, all files together
MaxRuns  == 2   \* runs of the script in a row

\* ------------------------------------------------------------ input data
NoneVal == "<None>"                 \* JSON null / Python None
ARTIST == "master_metadata_album_artist_name"
ALBUM  == "master_metadata_album_album_name"
TRACK  == "master_metadata_track_name"
Keys == {ARTIST, ALBUM, TRACK}

\* str values of each field (the empty string included)
Names == [k \in Keys |-> IF k = TRACK THEN {"A"} ELSE {"", "A"}]
AllNames == UNION {Names[k] : k \in Keys}

NoFields == [k \in {} |-> ""]

\* A JSON object of the log: any subset of the three keys may be present,
\* each present key holding a string or null.
LogEntry ==
    UNION {{f \in [K -> AllNames \cup {NoneVal}] : \A k \in K : f[k] \in Names[k] \cup {NoneVal}} :
            K \in SUBSET Keys}

DictElem(f) == [kind |-> "dict", get |-> f]
StrElem == [kind |-> "str", get |-> NoFields]       \* a str (key of an object, character of a string)
Unread == [kind |-> "unread", get |-> NoFields]     \* element not inspected yet
Elements == {DictElem(f) : f \in LogEntry} \cup {StrElem}

\* The content of the files is input: where it is left open (Unread), the
\* element is drawn from Elements when the loop reaches it.
Resolve(slot) == IF slot = Unread THEN Elements ELSE {slot}

RECURSIVE SeqsUpTo(_, _)
SeqsUpTo(S, n) ==
    IF n = 0 THEN {<<>>}
    ELSE LET shorter == SeqsUpTo(S, n - 1)
         IN  shorter \cup {Append(s, x) : s \in {t \in shorter : Len(t) = n - 1}, x \in S}

\* What a file holds: text that is not JSON, or a JSON value.
Text(kind, items) == [kind |-> kind, items |-> items]
\* "invalid": not JSON; "scalar": a number, true, false or null; "object" and
\* "string" carry what iterating them yields, the keys and the characters.
ArrayTexts(ItemSet) == {Text("array", s) : s \in SeqsUpTo(ItemSet, MaxRecs)}
OtherTexts ==
    {Text("invalid", <<>>), Text("scalar", <<>>)}
    \cup {Text(k, s) : k \in {"object", "string"}, s \in SeqsUpTo({StrElem}, 1)}

\* the records of the directories that are read twice
SampleElements ==
    {DictElem(f) : f \in {g \in LogEntry : DOMAIN g = Keys /\ g[ARTIST] # NoneVal
                                            /\ g[ALBUM] = "A" /\ g[TRACK] = "A"}}

NoText == Text("none", <<>>)
UnreadText == Text("unread", <<>>)                  \* file not read yet
Directory == Text("directory", <<>>)                \* entry of ./data that is a sub-directory

\* the texts an unread file may turn out to hold, with room for so many elements
ResolveText(text, room) ==
    IF text = UnreadText
    THEN {t \in ArrayTexts({Unread}) \cup OtherTexts : Len(t.items) <= room}
    ELSE {text}

\* ------------------------------------------------------- ordered dicts
EmptyDict == <<>>

HasKey(d, k) == \E i \in 1..Len(d) : d[i][1] = k
IndexOf(d, k) == CHOOSE i \in 1..Len(d) : d[i][1] = k

\* dict.get(k, default)
DictGet(d, k, default) == IF HasKey(d, k) THEN d[IndexOf(d, k)][2] ELSE default

\* d[k] = v: an existing key keeps its place, a new key goes last
DictSet(d, k, v) ==
    IF HasKey(d, k)
    THEN [d EXCEPT ![IndexOf(d, k)] = <<k, v>>]
    ELSE Append(d, <<k, v>>)

RECURSIVE SumSeq(_)
SumSeq(s) == IF s = <<>> THEN 0 ELSE Head(s) + SumSeq(Tail(s))

\* ---------------------------------------------------------------- state
VARIABLES
    dir,            \* ./data: whether it exists, and its entries (files' texts, sub-directories)
    outfile,        \* out/data.json: whether it exists and the JSON object it holds
    stdout,         \* lines printed
    pc,             \* where main() is: "main", "forfile", "forlog", "body", "exited"
    exit,           \* exit status of the process (-1 while it runs)
    error,          \* the exception that ended the process, "" if none
    files_to_parse, \* Parser.files_to_parse
    current,        \* Parser.current
    fileIdx,        \* position of main's for loop in files_to_parse
    src,            \* load_dataset: the text read from the file
    obj,            \* load_dataset: the elements of obj still to visit
    log,            \* load_dataset: the element the loop body is visiting
    data,           \* Parser.data
    seen,           \* history: artists in the order of their first valid entry
    valid,          \* history: number of valid records visited, per (artist, album, track)
    ingested,       \* history: the files load_dataset was called on, in order
    writes,         \* history: number of times out/data.json was written
    wellformed,     \* history: every file read so far held an array of objects with the three keys
    before,         \* history: out/data.json as the process found it
    run,            \* history: number of the process (1 = first run)
    prevOut,        \* history: out/data.json as the previous run left it
    prevOrder,      \* history: files_to_parse of the previous run
    prevExit,       \* history: exit status of the previous run
    nread           \* history: number of elements of the files read so far

vars == <<dir, outfile, stdout, pc, exit, error, files_to_parse, current, fileIdx,
          src, obj, log, data, seen, valid, ingested, writes, wellformed, before,
          run, prevOut, prevOrder, prevExit, nread>>

process == <<pc, exit, error, files_to_parse, current, fileIdx, src, obj, log, data>>
history == <<seen, valid, ingested, writes, wellformed, before, run, prevOut, prevOrder, prevExit,
             nread>>

\* ------------------------------------------------------------ to_entry
Entry(artist_name, album_name, track_name) ==
    [artist_name |-> artist_name, album_name |-> album_name, track_name |-> track_name]

NoEntry == Entry(NoneVal, NoneVal, NoneVal)

Raised(exc) == [exc |-> exc, entry |-> NoEntry]
Returned(entry) == [exc |-> "", entry |-> entry]

\* log_entry[key]: subscripting a str with a str is a TypeError, a dict
\* without the key a KeyError
Subscript(log_entry, key) ==
    IF log_entry.kind # "dict" THEN Raised("TypeError")
    ELSE IF key \notin DOMAIN log_entry.get THEN Raised("KeyError")
    ELSE Returned(Entry(log_entry.get[key], NoneVal, NoneVal))

\* to_entry that checks only the artist and the album for None
to_entry_noTrackCheck(log_entry) ==
    LET artist_name == Subscript(log_entry, ARTIST)
        album_name == Subscript(log_entry, ALBUM)
        track_name == Subscript(log_entry, TRACK)
    IN  IF artist_name.exc # "" THEN artist_name
        ELSE IF artist_name.entry.artist_name = NoneVal THEN Returned(NoEntry)
        ELSE IF album_name.exc # "" THEN album_name
        ELSE IF album_name.entry.artist_name = NoneVal THEN Returned(NoEntry)
        ELSE IF track_name.exc # "" THEN track_name
        ELSE Returned(Entry(artist_name.entry.artist_name,
                            album_name.entry.artist_name,
                            track_name.entry.artist_name))

to_entry(log_entry) ==
    LET artist_name == Subscript(log_entry, ARTIST)
        album_name == Subscript(log_entry, ALBUM)
        track_name == Subscript(log_entry, TRACK)
    IN  IF artist_name.exc # "" THEN artist_name
        ELSE IF artist_name.entry.artist_name = NoneVal THEN Returned(NoEntry)
        ELSE IF album_name.exc # "" THEN album_name
        ELSE IF album_name.entry.artist_name = NoneVal THEN Returned(NoEntry)
        ELSE IF track_name.exc # "" THEN track_name
        ELSE IF track_name.entry.artist_name = NoneVal THEN Returned(NoEntry)
        ELSE Returned(Entry(artist_name.entry.artist_name,
                            album_name.entry.artist_name,
                            track_name.entry.artist_name))

\* ------------------------------------------------------ Album, Artist
Album(tracks, total_listens) == [tracks |-> tracks, total_listens |-> total_listens]
NewAlbum == Album(EmptyDict, 0)

Artist(albums, total_listens) == [albums |-> albums, total_listens |-> total_listens]
NewArtist == Artist(EmptyDict, 0)

\* Album.update that forgets the album's own counter
Album_update_noTotal(album, entry) ==
    Album(DictSet(album.tracks, entry.track_name,
                  DictGet(album.tracks, entry.track_name, 0) + 1),
          album.total_listens)

\* Album.update that overwrites the track's count instead of adding to it
Album_update_reset(album, entry) ==
    Album(DictSet(album.tracks, entry.track_name, 1), album.total_listens + 1)

Album_update(album, entry) ==
    LET track == DictGet(album.tracks, entry.track_name, 0) + 1
    IN  Album(DictSet(album.tracks, entry.track_name, track), album.total_listens + 1)

Artist_update(artist, entry) ==
    LET album == Album_update(DictGet(artist.albums, entry.album_name, NewAlbum), entry)
    IN  Artist(DictSet(artist.albums, entry.album_name, album), artist.total_listens + 1)

\* the three statements of the loop body that fold an entry into Parser.data
Fold(d, entry) ==
    LET artist == Artist_update(DictGet(d, entry.artist_name, NewArtist), entry)
    IN  DictSet(d, entry.artist_name, artist)

\* ---------------------------------------------------------------- save
\* place of x in a list sorted by descending total_listens: before its equals
InsertBefore(sorted, x) ==
    LET n == Cardinality({i \in 1..Len(sorted) : sorted[i][2].total_listens > x[2].total_listens})
    IN  SubSeq(sorted, 1, n) \o <<x>> \o SubSeq(sorted, n + 1, Len(sorted))

\* place of x in a list sorted by descending total_listens: after its equals
InsertAfter(sorted, x) ==
    LET n == Cardinality({i \in 1..Len(sorted) : sorted[i][2].total_listens >= x[2].total_listens})
    IN  SubSeq(sorted, 1, n) \o <<x>> \o SubSeq(sorted, n + 1, Len(sorted))

RECURSIVE SortedItemsFrom(_, _)
SortedItemsFrom(items, acc) ==
    IF items = <<>> THEN acc
    ELSE SortedItemsFrom(Tail(items), InsertAfter(acc, Head(items)))

\* sorted(self.data.items(), key=lambda kvp: kvp[1].total_listens, reverse=True):
\* a stable sort, equal keys keep the order of the items
SortedItems(items) == SortedItemsFrom(items, <<>>)

\* dataclasses.asdict on an Album and on an Artist: the fields in declaration
\* order, as the JSON object json.dumps writes
AsDictAlbum(album) ==
    << <<"tracks", album.tracks>>, <<"total_listens", album.total_listens>> >>

AsDict(artist) ==
    << <<"albums", [i \in 1..Len(artist.albums) |->
                        <<artist.albums[i][1], AsDictAlbum(artist.albums[i][2])>>]>>,
       <<"total_listens", artist.total_listens>> >>

\* the OrderedDict that save() dumps
Output(d) ==
    LET sorted == SortedItems(d)
    IN  [i \in 1..Len(sorted) |-> <<sorted[i][1], AsDict(sorted[i][2])>>]

OutFile(exists, json) == [exists |-> exists, json |-> json]

\* Path.write_text with the file opened for appending
WriteText_append(old, json) == OutFile(TRUE, old.json \o json)

\* Path.write_text: the file is created or truncated, then written
WriteText(old, json) == OutFile(TRUE, json)

\* ------------------------------------------------------- the directory
\* the entries of ./data, named 1, 2, ...
DirEntries(d) == 1..Len(d.entries)

is_file(d, sub) == d.entries[sub] # Directory

\* Path.iterdir(): the entries in an arbitrary order
Listings(d) ==
    {l \in [1..Cardinality(DirEntries(d)) -> DirEntries(d)] :
        \A i, j \in DOMAIN l : i # j => l[i] # l[j]}

\* the comprehension of Parser.__init__ without its filter
FilesOf_all(d, listing) == listing

\* [str(sub.absolute()) for sub in ... if sub.is_file()]
FilesOf(d, listing) == SelectSeq(listing, LAMBDA sub : is_file(d, sub))

\* Path(fp).read_text(): the text of the file; a directory cannot be read
ReadText(d, fp, room) == ResolveText(d.entries[fp], room)

\* list(json.loads(src)): the elements, or the exception
ParsedList(text) ==
    CASE text.kind = "directory" -> [exc |-> "IsADirectoryError", list |-> <<>>]
      [] text.kind = "invalid"   -> [exc |-> "JSONDecodeError", list |-> <<>>]
      [] text.kind = "scalar"    -> [exc |-> "TypeError", list |-> <<>>]
      [] OTHER                   -> [exc |-> "", list |-> text.items]

\* a loop over the files that never advances
CurrentFile_first(files, idx) == files[1]

\* for file in parser.files_to_parse: the file of the idx-th iteration
CurrentFile(files, idx) == files[idx]

Line(msg, cur, total, fp) == [msg |-> msg, current |-> cur, total |-> total, fp |-> fp]

\* ----------------------------------------------------------------- Init
Triples == Names[ARTIST] \X Names[ALBUM] \X Names[TRACK]

StaleJson == << <<"stale", AsDict(NewArtist)>> >>

Lengths(fs) == [i \in 1..Len(fs) |-> Len(fs[i].items)]

\* ./data missing, or holding up to MaxFiles entries with up to MaxRecs elements
Dirs(entries) ==
    {[exists |-> FALSE, entries |-> <<>>]}
    \cup {[exists |-> TRUE, entries |-> fs] :
            fs \in {gs \in SeqsUpTo(entries, MaxFiles) : SumSeq(Lengths(gs)) <= MaxRecs}}

InitWith(dirs, outfiles) ==
    /\ dir \in dirs
    /\ outfile \in outfiles
    /\ stdout = <<>>
    /\ pc = "main"
    /\ exit = -1
    /\ error = ""
    /\ files_to_parse = <<>>
    /\ current = 0
    /\ fileIdx = 0
    /\ src = NoText
    /\ obj = <<>>
    /\ log = Unread
    /\ data = EmptyDict
    /\ seen = <<>>
    /\ valid = [t \in Triples |-> 0]
    /\ ingested = <<>>
    /\ writes = 0
    /\ wellformed = TRUE
    /\ before = outfile
    /\ run = 1
    /\ prevOut = outfile
    /\ prevOrder = <<>>
    /\ prevExit = -1
    /\ nread = 0

\* one run over a directory whose files and records are drawn as the run reaches them
Init ==
    InitWith(Dirs({UnreadText, Directory}), {OutFile(FALSE, <<>>), OutFile(TRUE, StaleJson)})

\* runs in a row over a directory whose content is fixed
InitRerun == InitWith(Dirs(ArrayTexts(SampleElements)), {OutFile(FALSE, <<>>)})

\* -------------------------------------------------------------- actions
Abort(exc) ==
    /\ pc' = "exited"
    /\ exit' = 1
    /\ error' = exc

\* a record with the three fields present and none of them null
IsValidRecord(e) ==
    /\ e.kind = "dict"
    /\ DOMAIN e.get = Keys
    /\ \A k \in Keys : e.get[k] # NoneVal

IsWellFormed(e) == e.kind = "dict" /\ DOMAIN e.get = Keys

TripleOf(e) == <<e.get[ARTIST], e.get[ALBUM], e.get[TRACK]>>

InSeq(s, x) == \E i \in 1..Len(s) : s[i] = x

\* main that returns 0 when the input directory is missing
MainMissingDir_status0 ==
    /\ pc = "main"
    /\ ~dir.exists
    /\ stdout' = Append(stdout, Line("ERROR: Missing input directory", 0, 0, 0))
    /\ pc' = "exited"
    /\ exit' = 0
    /\ UNCHANGED <<dir, outfile, error, files_to_parse, current, fileIdx, src, obj, log, data>>
    /\ UNCHANGED history

\* main: the input directory is missing
MainMissingDir ==
    /\ pc = "main"
    /\ ~dir.exists
    /\ stdout' = Append(stdout, Line("ERROR: Missing input directory", 0, 0, 0))
    /\ pc' = "exited"
    /\ exit' = 1
    /\ UNCHANGED <<dir, outfile, error, files_to_parse, current, fileIdx, src, obj, log, data>>
    /\ UNCHANGED history

\* main: parser = Parser()
ParserInit ==
    /\ pc = "main"
    /\ dir.exists
    /\ \E listing \in Listings(dir) : files_to_parse' = FilesOf(dir, listing)
    /\ current' = 1
    /\ fileIdx' = 1
    /\ pc' = "forfile"
    /\ UNCHANGED <<dir, outfile, stdout, exit, error, src, obj, log, data>>
    /\ UNCHANGED history

\* load_dataset up to the for loop: progress line, read_text, json.loads, list
LoadDatasetOpen ==
    /\ pc = "forfile"
    /\ fileIdx <= Len(files_to_parse)
    /\ \E text \in ReadText(dir, CurrentFile(files_to_parse, fileIdx), MaxRecs - nread) :
       LET fp == CurrentFile(files_to_parse, fileIdx)
           parsed == ParsedList(text)
       IN  /\ stdout' = Append(stdout, Line("Parsing", current, Len(files_to_parse), fp))
           /\ src' = text
           /\ ingested' = Append(ingested, fp)
           /\ nread' = nread + Len(text.items)
           /\ wellformed' = (wellformed /\ (is_file(dir, fp) => text.kind = "array"))
           /\ IF parsed.exc # ""
              THEN Abort(parsed.exc) /\ obj' = obj
              ELSE obj' = parsed.list /\ pc' = "forlog" /\ UNCHANGED <<exit, error>>
    /\ UNCHANGED <<dir, outfile, files_to_parse, current, fileIdx, log, data>>
    /\ UNCHANGED <<seen, valid, writes, before, run, prevOut, prevOrder, prevExit>>

\* for log in obj: the next element
LoadDatasetNext ==
    /\ pc = "forlog"
    /\ obj # <<>>
    /\ log' \in Resolve(Head(obj))
    /\ obj' = Tail(obj)
    /\ pc' = "body"
    /\ UNCHANGED <<dir, outfile, stdout, exit, error, files_to_parse, current, fileIdx, src, data>>
    /\ UNCHANGED history

\* the body of the for loop of load_dataset; the element is dead afterwards
LoadDatasetBody ==
    /\ pc = "body"
    /\ LET entry == to_entry(log)
       IN  /\ wellformed' = (wellformed /\ IsWellFormed(log))
           /\ seen' = IF IsValidRecord(log) /\ ~InSeq(seen, log.get[ARTIST])
                      THEN Append(seen, log.get[ARTIST]) ELSE seen
           /\ valid' = IF IsValidRecord(log)
                       THEN [valid EXCEPT ![TripleOf(log)] = @ + 1] ELSE valid
           /\ IF entry.exc # ""
              THEN Abort(entry.exc) /\ UNCHANGED <<data, log>>
              ELSE /\ pc' = "forlog"
                   /\ log' = Unread
                   /\ UNCHANGED <<exit, error>>
                   /\ data' = IF entry.entry = NoEntry THEN data ELSE Fold(data, entry.entry)
    /\ UNCHANGED <<dir, outfile, stdout, files_to_parse, current, fileIdx, src, obj>>
    /\ UNCHANGED <<ingested, writes, before, run, prevOut, prevOrder, prevExit, nread>>

\* the end of load_dataset, back in the for loop of main; its locals are gone
LoadDatasetClose ==
    /\ pc = "forlog"
    /\ obj = <<>>
    /\ current' = current + 1
    /\ fileIdx' = fileIdx + 1
    /\ pc' = "forfile"
    /\ src' = NoText
    /\ UNCHANGED <<dir, outfile, stdout, exit, error, files_to_parse, obj, log, data>>
    /\ UNCHANGED history

\* main after the loop: print(), parser.save(), return 0 (./out is taken to be
\* creatable and out/data.json writable)
Save ==
    /\ pc = "forfile"
    /\ fileIdx > Len(files_to_parse)
    /\ outfile' = WriteText(outfile, Output(data))
    /\ stdout' = stdout \o <<Line("", 0, 0, 0), Line("Data written to out/data.json", 0, 0, 0)>>
    /\ writes' = writes + 1
    /\ pc' = "exited"
    /\ exit' = 0
    /\ UNCHANGED <<dir, error, files_to_parse, current, fileIdx, src, obj, log, data>>
    /\ UNCHANGED <<seen, valid, ingested, wellformed, before, run, prevOut, prevOrder, prevExit,
                   nread>>

\* the script is started again: a new process, the class body sets Parser.data = {}
Rerun ==
    /\ pc = "exited"
    /\ run < MaxRuns
    /\ run' = run + 1
    /\ prevOut' = outfile
    /\ prevOrder' = files_to_parse
    /\ prevExit' = exit
    /\ before' = outfile
    /\ stdout' = <<>>
    /\ pc' = "main"
    /\ exit' = -1
    /\ error' = ""
    /\ files_to_parse' = <<>>
    /\ current' = 0
    /\ fileIdx' = 0
    /\ src' = NoText
    /\ obj' = <<>>
    /\ log' = Unread
    /\ data' = EmptyDict
    /\ seen' = <<>>
    /\ valid' = [t \in Triples |-> 0]
    /\ ingested' = <<>>
    /\ writes' = 0
    /\ wellformed' = TRUE
    /\ nread' = 0
    /\ UNCHANGED <<dir, outfile>>

Next ==
    \/ MainMissingDir
    \/ ParserInit
    \/ LoadDatasetOpen
    \/ LoadDatasetNext
    \/ LoadDatasetBody
    \/ LoadDatasetClose
    \/ Save

NextRerun == Next \/ Rerun

Spec == Init /\ [][Next]_vars
SpecRerun == InitRerun /\ [][NextRerun]_vars

\* ------------------------------------------------------------ properties
ArtistOf(d, a) == DictGet(d, a, NewArtist)
AlbumOf(d, a, b) == DictGet(ArtistOf(d, a).albums, b, NewAlbum)
TrackCount(d, a, b, t) == DictGet(AlbumOf(d, a, b).tracks, t, 0)

HasArtist(d, a) == HasKey(d, a)
HasAlbum(d, a, b) == HasArtist(d, a) /\ HasKey(ArtistOf(d, a).albums, b)
HasTrack(d, a, b, t) == HasAlbum(d, a, b) /\ HasKey(AlbumOf(d, a, b).tracks, t)

Values(d) == [i \in 1..Len(d) |-> d[i][2]]
AlbumTotals(artist) == [i \in 1..Len(artist.albums) |-> artist.albums[i][2].total_listens]

HasNull(e) == e.kind = "dict" /\ \E k \in DOMAIN e.get : e.get[k] = NoneVal
HasAbsent(e) == e.kind = "dict" /\ DOMAIN e.get # Keys

Finished == pc = "exited" /\ exit = 0

OutName(i) == outfile.json[i][1]
OutTotal(i) == outfile.json[i][2][2][2]
PosIn(s, x) == CHOOSE i \in 1..Len(s) : s[i] = x

\* C2 (ordering): in the output written by save(), the artists are in
\* non-increasing order of total_listens, and artists with equal total_listens
\* are in the order of their first valid entry.
C2_Ordering ==
    Finished =>
        /\ \A i \in 1..Len(outfile.json) : InSeq(seen, OutName(i))
        /\ \A i, j \in 1..Len(outfile.json) :
             i < j =>
                /\ OutTotal(i) >= OutTotal(j)
                /\ OutTotal(i) = OutTotal(j) => PosIn(seen, OutName(i)) < PosIn(seen, OutName(j))

C2_Witness ==
    /\ Finished
    /\ Len(outfile.json) = 2
    /\ OutTotal(1) = 1
    /\ OutTotal(2) = 1
    /\ OutName(1) = "A"

\* C3 (filtering): the loop body run on a record with a null field leaves
\* Parser.data unchanged, whichever field is null.
C3_NullLeavesCatalog ==
    [][(pc = "body" /\ HasNull(log)) => data' = data]_vars

C3_Witness ==
    /\ pc = "body"
    /\ log.kind = "dict"
    /\ DOMAIN log.get = Keys
    /\ log.get[ARTIST] = "A"
    /\ log.get[ALBUM] = ""
    /\ log.get[TRACK] = NoneVal
    /\ HasArtist(data, "A")
    /\ ~HasAlbum(data, "A", "")

\* C4 (absent fields): a record that lacks one of the three keys is skipped
\* like a null one: visiting it does not end the run with an exception.
C4_AbsentSkipped ==
    HasAbsent(log) => error = ""

\* C5 (malformed file): reading a file whose content is not a JSON array ends
\* the run with an error, and nothing is written.
C5_NonArrayAborts ==
    src.kind \notin {"none", "array"} => (pc = "exited" /\ error # "" /\ writes = 0)

\* C6 (exit status): without the input directory the run prints the error,
\* exits with status 1, ingests nothing and leaves out/data.json as it was;
\* with the directory and only well-formed files it exits with status 0
\* after writing out/data.json.
C6_ExitStatus ==
    pc = "exited" =>
        /\ ~dir.exists =>
             /\ exit = 1
             /\ InSeq(stdout, Line("ERROR: Missing input directory", 0, 0, 0))
             /\ ingested = <<>>
             /\ writes = 0
             /\ outfile = before
        /\ (dir.exists /\ wellformed) =>
             /\ exit = 0
             /\ writes = 1
             /\ outfile = OutFile(TRUE, Output(data))

C6_Witness ==
    /\ pc = "exited"
    /\ dir.exists
    /\ Len(dir.entries) = 2
    /\ wellformed
    /\ Len(ingested) = 2
    /\ nread = 3
    /\ before.exists
    /\ Len(outfile.json) = 1
    /\ outfile.json[1][1] = ""

BothRunsFinished == run > 1 /\ Finished /\ prevExit = 0

\* C7 (re-run, as claimed): two finished runs over the same directory leave
\* the same output, whatever order the directory listing yields the files in.
C7_AnyOrder ==
    BothRunsFinished => outfile = prevOut

\* C7 (re-run, amended): two finished runs over the same directory leave the
\* same output when the directory listing yields the files in the same order.
C7_SameOrder ==
    (BothRunsFinished /\ files_to_parse = prevOrder) => outfile = prevOut

C7_Witness ==
    /\ BothRunsFinished
    /\ files_to_parse = prevOrder
    /\ Len(files_to_parse) = 2
    /\ Len(outfile.json) = 2
    /\ OutTotal(1) = OutTotal(2)

\* C8 (empty input): when ./data exists and holds no file (sub-directories
\* aside), the run finishes and out/data.json holds the empty object.
C8_EmptyInput ==
    (pc = "exited" /\ dir.exists /\ \A sub \in DirEntries(dir) : ~is_file(dir, sub)) =>
        /\ exit = 0
        /\ outfile = OutFile(TRUE, <<>>)

C8_Witness ==
    /\ pc = "exited"
    /\ dir.exists
    /\ dir.entries = <<Directory>>
    /\ before = OutFile(TRUE, StaleJson)
    /\ outfile = OutFile(TRUE, <<>>)

Plus(c) == IF c THEN 1 ELSE 0

\* the visit of the valid record (a, b, t) adds 1 to that artist, that album
\* and that track, creates them if missing and changes no other counter
FoldsOne(a, b, t) ==
    \A x \in Names[ARTIST] :
        LET artist == ArtistOf(data, x)
            artist2 == ArtistOf(data', x)
        IN  /\ artist2.total_listens = artist.total_listens + Plus(x = a)
            /\ HasKey(data', x) <=> (HasKey(data, x) \/ x = a)
            /\ \A y \in Names[ALBUM] :
                 LET album == DictGet(artist.albums, y, NewAlbum)
                     album2 == DictGet(artist2.albums, y, NewAlbum)
                 IN  /\ album2.total_listens = album.total_listens + Plus(<<x, y>> = <<a, b>>)
                     /\ HasKey(artist2.albums, y) <=> (HasKey(artist.albums, y) \/ <<x, y>> = <<a, b>>)
                     /\ \A z \in Names[TRACK] :
                          /\ DictGet(album2.tracks, z, 0)
                               = DictGet(album.tracks, z, 0) + Plus(<<x, y, z>> = <<a, b, t>>)
                          /\ HasKey(album2.tracks, z)
                               <=> (HasKey(album.tracks, z) \/ <<x, y, z>> = <<a, b, t>>)

\* the tracks of a catalog with their counts, as <<artist, album, track, count>>
Tracks(d) ==
    UNION {UNION {{<<d[i][1], d[i][2].albums[j][1],
                     d[i][2].albums[j][2].tracks[k][1], d[i][2].albums[j][2].tracks[k][2]>> :
                        k \in 1..Len(d[i][2].albums[j][2].tracks)} :
                    j \in 1..Len(d[i][2].albums)} :
            i \in 1..Len(d)}

\* the triples of the valid records visited, with the number of their visits
Tally == {<<t[1], t[2], t[3], valid[t]>> : t \in {u \in Triples : valid[u] > 0}}

\* no artist without an album, no album without a track, no key twice
NoEmptyEntry(d) ==
    /\ \A i, j \in 1..Len(d) : d[i][1] = d[j][1] => i = j
    /\ \A i \in 1..Len(d) :
         LET albums == d[i][2].albums
         IN  /\ albums # <<>>
             /\ \A j, k \in 1..Len(albums) : albums[j][1] = albums[k][1] => j = k
             /\ \A j \in 1..Len(albums) :
                  LET tracks == albums[j][2].tracks
                  IN  /\ tracks # <<>>
                      /\ \A k, l \in 1..Len(tracks) : tracks[k][1] = tracks[l][1] => k = l

IsPrefix(s, t) == Len(s) <= Len(t) /\ \A i \in 1..Len(s) : s[i] = t[i]

\* C10 (run ordering): the files are ingested one at a time in the order of
\* files_to_parse, none twice; out/data.json is written at most once, only
\* when every file has been ingested, and nothing is ingested afterwards; no
\* artist, album or track is removed and no counter decreases.
C10_RunOrdering ==
    /\ [](/\ IsPrefix(ingested, files_to_parse)
          /\ \A i, j \in 1..Len(ingested) : i # j => ingested[i] # ingested[j]
          /\ writes <= 1
          /\ (writes = 1 \/ Finished) =>
                /\ ingested = files_to_parse
                /\ current = Len(files_to_parse) + 1)
    /\ [][/\ ingested' # ingested =>
                /\ writes = 0
                /\ pc = "forfile"
                /\ Len(ingested) = current - 1
                /\ ingested' = Append(ingested, files_to_parse[current])
          /\ writes' # writes => (writes' = 1 /\ ingested' = ingested)
          /\ data' # data =>
                \A i \in 1..Len(data) :
                    LET a == data[i][1]
                        albums == data[i][2].albums
                    IN  /\ HasArtist(data', a)
                        /\ ArtistOf(data', a).total_listens >= data[i][2].total_listens
                        /\ \A j \in 1..Len(albums) :
                             LET b == albums[j][1]
                                 tracks == albums[j][2].tracks
                             IN  /\ HasAlbum(data', a, b)
                                 /\ AlbumOf(data', a, b).total_listens >= albums[j][2].total_listens
                                 /\ \A k \in 1..Len(tracks) :
                                      /\ HasTrack(data', a, b, tracks[k][1])
                                      /\ TrackCount(data', a, b, tracks[k][1]) >= tracks[k][2]]_vars

C10_Witness ==
    /\ Finished
    /\ ingested = <<2, 1>>
    /\ writes = 1
    /\ Len(data) = 2

====
